---- MODULE Spec2Model ----
(***************************************************************************)
(* Response reconciliation of the Sahayak backend: the two versions of     *)
(* LLMValidationService.validateAndProcessResults (character offsets in    *)
(* lib/llmService.js, paragraph index + searchable text in the structured  *)
(* service), with fuzzyMatch and levenshteinDistance.                      *)
(*                                                                         *)
(* Strings are sequences of one-character strings.  A JSON value that may  *)
(* be a number, null or absent is a record [t, n]; a value that may be a   *)
(* string or absent is a record [t, s].                                    *)
(***************************************************************************)
EXTENDS Integers, Sequences, FiniteSets

\* ---------------------------------------------------------------- bounds
DocLen == 5          \* length of the analysed document's fullText
MaxIssues == 2       \* most elements of the reply's issues array
MaxParagraphs == 2   \* most paragraphs of a structured document

\* ------------------------------------------------------- JavaScript values
Num(n) == [t |-> "num", n |-> n]
Undefined == [t |-> "undef", n |-> 0]
Null == [t |-> "null", n |-> 0]

Str(s) == [t |-> "str", s |-> s]
NoText == [t |-> "undef", s |-> <<>>]

\* ToNumber: undefined is NaN, null is 0.
IsNaN(v) == v.t = "undef"
ToNumber(v) == IF v.t = "num" THEN v.n ELSE 0

\* a < b, a > b, a >= b on numbers, null and undefined: any comparison
\* with NaN is false.
JsLt(a, b) == ~IsNaN(a) /\ ~IsNaN(b) /\ ToNumber(a) < ToNumber(b)
JsGt(a, b) == ~IsNaN(a) /\ ~IsNaN(b) /\ ToNumber(a) > ToNumber(b)
JsGe(a, b) == ~IsNaN(a) /\ ~IsNaN(b) /\ ToNumber(a) >= ToNumber(b)

Min2(a, b) == IF a < b THEN a ELSE b
Max2(a, b) == IF a < b THEN b ELSE a
Clamp(n, len) == Max2(0, Min2(n, len))

\* String.prototype.substring(start, end): NaN is 0, an absent end is the
\* length, both are clamped to [0, length] and swapped when start > end.
substring(text, start, end) ==
  LET s == Clamp(ToNumber(start), Len(text))
      e == IF end.t = "undef" THEN Len(text) ELSE Clamp(ToNumber(end), Len(text))
  IN SubSeq(text, Min2(s, e) + 1, Max2(s, e))

\* ------------------------------------------------------ ApproximateMatcher
\* matrix[i][j] of levenshteinDistance, one row at a time: row i is for the
\* first i characters of str2, column j for the first j characters of str1.
RECURSIVE matrixRow(_, _, _)
matrixRow(str1, str2, i) ==
  IF i = 0
  THEN [j \in 0..Len(str1) |-> j]
  ELSE LET prev == matrixRow(str1, str2, i - 1)
           row[j \in 0..Len(str1)] ==
             IF j = 0 THEN i
             ELSE IF str2[i] = str1[j]
                  THEN prev[j - 1]
                  ELSE Min2(prev[j - 1] + 1, Min2(row[j - 1] + 1, prev[j] + 1))
       IN row

\* levenshteinDistance comparing the characters without regard to case
levenshteinDistanceFolded(str1, str2) ==
  LET fold(s) == [k \in 1..Len(s) |-> IF s[k] = "A" THEN "a" ELSE s[k]]
  IN matrixRow(fold(str1), fold(str2), Len(str2))[Len(str1)]

levenshteinDistance(str1, str2) == matrixRow(str1, str2, Len(str2))[Len(str1)]

\* the default threshold 0.8 as the fraction ThresholdNum / ThresholdDen
ThresholdNum == 4
ThresholdDen == 5

\* similarity >= threshold, with similarity = (longer.length - distance) /
\* longer.length, cross-multiplied.
fuzzyMatchTooStrict(str1, str2) ==
  IF Len(str1) = 0 \/ Len(str2) = 0 THEN FALSE
  ELSE LET longer == IF Len(str1) > Len(str2) THEN str1 ELSE str2
           shorter == IF Len(str1) > Len(str2) THEN str2 ELSE str1
       IN ThresholdDen * (Len(longer) - levenshteinDistance(longer, shorter))
            > ThresholdNum * Len(longer)

fuzzyMatchTooLax(str1, str2) ==
  IF Len(str1) = 0 \/ Len(str2) = 0 THEN FALSE
  ELSE LET longer == IF Len(str1) > Len(str2) THEN str1 ELSE str2
           shorter == IF Len(str1) > Len(str2) THEN str2 ELSE str1
       IN ThresholdDen * (Len(longer) - levenshteinDistance(longer, shorter))
            >= (ThresholdNum - 2) * Len(longer)

\* fuzzyMatch without its first line, line 286
fuzzyMatchNoEmptyTest(str1, str2) ==
  LET longer == IF Len(str1) > Len(str2) THEN str1 ELSE str2
      shorter == IF Len(str1) > Len(str2) THEN str2 ELSE str1
  IN IF Len(longer) = 0 THEN TRUE
     ELSE ThresholdDen * (Len(longer) - levenshteinDistance(longer, shorter))
            >= ThresholdNum * Len(longer)

fuzzyMatch(str1, str2) ==
  IF Len(str1) = 0 \/ Len(str2) = 0 THEN FALSE
  ELSE LET longer == IF Len(str1) > Len(str2) THEN str1 ELSE str2
           shorter == IF Len(str1) > Len(str2) THEN str2 ELSE str1
       IN IF Len(longer) = 0 THEN TRUE
          ELSE ThresholdDen * (Len(longer) - levenshteinDistance(longer, shorter))
                 >= ThresholdNum * Len(longer)

\* ------------------------------------------------------------------ state
VARIABLES
  originalText,     \* the document's fullText
  paragraphs,       \* documentStructure.paragraphs: [present, items]
  analysisResult,   \* the parsed reply: [summary, issues]
  pc,               \* "start", "loop", "returned" or "thrown"
  i,                \* number of elements of issues the loop has taken
  validatedIssues,  \* the survivors, in order
  validationStats,  \* the counters
  result,           \* the value returned
  \* analyzeDocument
  content,          \* the reply's text, a sequence of tokens
  apc,              \* position of analyzeDocument
  modelCalls,       \* number of calls of anthropic.messages.create
  error,            \* the error caught or thrown by analyzeDocument
  jsonText,         \* the text handed to JSON.parse
  documentText,     \* analyzeDocument's argument: head, then run times "a"
  \* the analyze handler
  request,          \* req: [method, body]
  hpc,              \* position of the handler
  response,         \* the response sent: [status, code]
  \* rateLimit
  rateLimitStore,   \* key -> [requests, resetTime], for the keys present
  now,              \* Date.now()
  decisions,        \* the values rateLimit returned, oldest first
  tasks,            \* the request-handling tasks that await rateLimit
  \* the matcher called on its own
  text1,            \* the argument str1
  text2,            \* the argument str2
  mpc,              \* "ready", or the function that has returned
  matched,          \* the value fuzzyMatch returned
  distance          \* the value levenshteinDistance returned

validatorVars == <<originalText, paragraphs, analysisResult, pc, i,
                   validatedIssues, validationStats, result>>
engineVars == <<content, apc, modelCalls, error, jsonText, documentText>>
handlerVars == <<request, hpc, response>>
limiterVars == <<rateLimitStore, now, decisions, tasks>>
matcherVars == <<text1, text2, mpc, matched, distance>>

vars == <<validatorVars, engineVars, handlerVars, limiterVars, matcherVars>>

NoError == [thrown |-> FALSE, message |-> "", type |-> "undefined", code |-> "undefined"]
NoRequest == [method |-> "", body |-> "none"]
NoResponse == [status |-> 0, code |-> ""]

\* the parts of the state a specification does not use
NoDocument == [head |-> <<>>, run |-> 0]
EngineIdle ==
  /\ content = <<>> /\ apc = "idle" /\ modelCalls = 0 /\ error = NoError
  /\ jsonText = <<>> /\ documentText = NoDocument
HandlerIdle == request = NoRequest /\ hpc = "idle" /\ response = NoResponse
LimiterIdle == rateLimitStore = <<>> /\ now = 0 /\ decisions = <<>> /\ tasks = <<>>
MatcherIdle ==
  text1 = <<>> /\ text2 = <<>> /\ mpc = "idle" /\ matched = FALSE /\ distance = 0

\* An element of the reply's issues array.  kind "null" is JSON null, "prim"
\* a number, string or boolean, "obj" an object; hasLocation says whether the
\* object has a location object.  id "" stands for an absent or empty id
\* (both falsy); severity, category and autoFixable "undefined" stand for
\* absent.
\* The code changes an accepted element in place; here analysisResult keeps
\* the elements as parsed and validatedIssues holds the changed copies.
Issue(kind, hasLocation, id, severity, startIndex, endIndex, exactText, paragraphIndex, searchableText) ==
  [kind |-> kind, hasLocation |-> hasLocation, id |-> id, severity |-> severity,
   autoFixable |-> "undefined", category |-> "undefined",
   startIndex |-> startIndex, endIndex |-> endIndex, exactText |-> exactText,
   paragraphIndex |-> paragraphIndex, searchableText |-> searchableText]

NullIssue == Issue("null", FALSE, "", "undefined", Undefined, Undefined, NoText,
                   Undefined, NoText)
PrimIssue == Issue("prim", FALSE, "", "undefined", Undefined, Undefined, NoText,
                   Undefined, NoText)
NoLocationIssue == Issue("obj", FALSE, "m0", "Critical", Undefined, Undefined,
                         NoText, Undefined, NoText)

NoSummary ==
  [present |-> FALSE, totalIssues |-> 0, critical |-> 0, warnings |-> 0,
   suggestions |-> 0, documentLength |-> 0]

NoResult ==
  [summary |-> NoSummary, issues |-> <<>>, validationStats |-> <<>>,
   processingVersion |-> ""]

\* the synthesized part of `issue_${Date.now()}_${random}`
RandomIds == {"issue_r1", "issue_r2"}

\* ------------------------------------------- offset form: lib/llmService.js
\* the bounds test of the loop
invalidIndicesNoOrderTest(location, originalLength) ==
  \/ JsLt(location.startIndex, Num(0))
  \/ JsGt(location.endIndex, Num(originalLength))

invalidIndicesEndExclusive(location, originalLength) ==
  \/ JsLt(location.startIndex, Num(0))
  \/ JsGe(location.endIndex, Num(originalLength))
  \/ JsGe(location.startIndex, location.endIndex)

invalidIndices(location, originalLength) ==
  \/ JsLt(location.startIndex, Num(0))
  \/ JsGt(location.endIndex, Num(originalLength))
  \/ JsGe(location.startIndex, location.endIndex)

\* What one iteration of the loop does with one element:
\*   "throw"          the catch block itself throws (issue.id of null)
\*   "caught"         the try block throws, the catch block logs
\*   "indexErrors"    rejected by the bounds test
\*   "textMismatches" rejected by the text test
\*   "rewritten"      accepted, exactText replaced by the actual text
\*   "accepted"       accepted as it is
offsetOutcome(issue, text) ==
  IF issue.kind = "null" THEN "throw"
  ELSE IF ~issue.hasLocation THEN "caught"
  ELSE IF invalidIndices(issue, Len(text)) THEN "indexErrors"
  ELSE LET actualText == substring(text, issue.startIndex, issue.endIndex)
       IN IF issue.exactText = Str(actualText) THEN "accepted"
          \* fuzzyMatch reads str2.length only when str1.length is not 0
          ELSE IF issue.exactText.t = "undef" /\ Len(actualText) # 0 THEN "caught"
          ELSE IF fuzzyMatch(actualText, issue.exactText.s) THEN "rewritten"
          ELSE "textMismatches"

\* the accepted element after lines 239 and 250-251
acceptedIssue(issue, exactText, newId) ==
  [issue EXCEPT !.exactText = exactText,
                !.id = IF issue.id = "" THEN newId ELSE issue.id,
                !.autoFixable = IF issue.autoFixable = "undefined" THEN "false"
                                ELSE issue.autoFixable]

\* validatedIssues.push(issue)
pushUnlessSameCategory(issues, issue) ==
  IF \E k \in 1..Len(issues) : issues[k].category = issue.category
  THEN issues ELSE Append(issues, issue)

push(issues, issue) == Append(issues, issue)

Bump(stats, field) == [stats EXCEPT ![field] = @ + 1]

Start ==
  /\ pc = "start"
  /\ analysisResult' =
       [summary |-> IF analysisResult.summary.present THEN analysisResult.summary
                    ELSE [present |-> TRUE, totalIssues |-> 0, critical |-> 0,
                          warnings |-> 0, suggestions |-> 0,
                          documentLength |-> Len(originalText)],
        issues |-> IF analysisResult.issues.present THEN analysisResult.issues
                   ELSE [present |-> TRUE, items |-> <<>>]]
  /\ validatedIssues' = <<>>
  /\ validationStats' =
       [original |-> Len(analysisResult'.issues.items), validated |-> 0,
        indexErrors |-> 0, textMismatches |-> 0]
  /\ i' = 0
  /\ pc' = "loop"
  /\ UNCHANGED <<originalText, paragraphs, result>>
  /\ UNCHANGED <<engineVars, handlerVars, limiterVars, matcherVars>>

ValidateIssue ==
  /\ pc = "loop"
  /\ i < Len(analysisResult.issues.items)
  /\ LET issue == analysisResult.issues.items[i + 1]
         outcome == offsetOutcome(issue, originalText)
         actualText == substring(originalText, issue.startIndex, issue.endIndex)
     IN /\ i' = i + 1
        /\ pc' = IF outcome = "throw" THEN "thrown" ELSE "loop"
        /\ CASE outcome \in {"throw", "caught"} ->
                  UNCHANGED <<validatedIssues, validationStats>>
             [] outcome \in {"indexErrors", "textMismatches"} ->
                  /\ validationStats' = Bump(validationStats, outcome)
                  /\ UNCHANGED validatedIssues
             [] outcome \in {"accepted", "rewritten"} ->
                  /\ \E newId \in (IF issue.id = "" THEN RandomIds ELSE {issue.id}) :
                       validatedIssues' =
                         push(validatedIssues,
                              acceptedIssue(issue,
                                            IF outcome = "rewritten"
                                            THEN Str(actualText)
                                            ELSE issue.exactText,
                                            newId))
                  /\ validationStats' = Bump(validationStats, "validated")
  /\ UNCHANGED <<originalText, paragraphs, analysisResult, result>>
  /\ UNCHANGED <<engineVars, handlerVars, limiterVars, matcherVars>>

CountSeverity(issues, severity) ==
  Cardinality({k \in 1..Len(issues) : issues[k].severity = severity})

\* the summary a bug would produce by keeping the reply's own counts
summaryFromReply(issues, reported, documentLength) ==
  [present |-> TRUE,
   totalIssues |-> reported.totalIssues,
   critical |-> reported.critical,
   warnings |-> reported.warnings,
   suggestions |-> reported.suggestions,
   documentLength |-> documentLength]

\* lines 262-268; `reported` is analysisResult.summary, which the code
\* does not read here
buildSummary(issues, reported, documentLength) ==
  [present |-> TRUE,
   totalIssues |-> Len(issues),
   critical |-> CountSeverity(issues, "Critical"),
   warnings |-> CountSeverity(issues, "Warning"),
   suggestions |-> CountSeverity(issues, "Suggestion"),
   documentLength |-> documentLength]

Finish ==
  /\ pc = "loop"
  /\ i = Len(analysisResult.issues.items)
  /\ result' = [summary |-> buildSummary(validatedIssues, analysisResult.summary,
                                         Len(originalText)),
                issues |-> validatedIssues,
                validationStats |-> validationStats,
                processingVersion |-> "1.0"]
  /\ pc' = "returned"
  /\ UNCHANGED <<originalText, paragraphs, analysisResult, i, validatedIssues,
                 validationStats>>
  /\ UNCHANGED <<engineVars, handlerVars, limiterVars, matcherVars>>

NextOffset == Start \/ ValidateIssue \/ Finish

\* ------------------------------------- paragraph form: structured service
\* paragraphIndex === undefined || paragraphIndex < 0
paragraphIndexAbsentOrNegative(paragraphIndex) ==
  paragraphIndex.t = "undef" \/ JsLt(paragraphIndex, Num(0))

\* paragraphIndex >= documentStructure.paragraphs.length
paragraphIndexPastEndOffByOne(paragraphIndex, length) ==
  JsGt(paragraphIndex, Num(length))

paragraphIndexPastEnd(paragraphIndex, length) ==
  JsGe(paragraphIndex, Num(length))

\* !issue.location?.searchableText
missingSearchableText(searchableText) ==
  searchableText.t = "undef" \/ Len(searchableText.s) = 0

\* What one iteration does with one element; "caught" is the TypeError of
\* reading documentStructure.paragraphs.length when paragraphs is absent,
\* which the test reaches only when its first two disjuncts are false.
paragraphOutcome(issue, paras) ==
  IF issue.kind = "null" THEN "throw"
  ELSE LET paragraphIndex == IF issue.hasLocation THEN issue.paragraphIndex
                             ELSE Undefined
           searchableText == IF issue.hasLocation THEN issue.searchableText
                             ELSE NoText
       IN IF paragraphIndexAbsentOrNegative(paragraphIndex)
          THEN "invalidParagraphIndex"
          ELSE IF ~paras.present THEN "caught"
          ELSE IF paragraphIndexPastEnd(paragraphIndex, Len(paras.items))
          THEN "invalidParagraphIndex"
          ELSE IF missingSearchableText(searchableText)
          THEN "missingSearchableText"
          ELSE "accepted"

StartP ==
  /\ pc = "start"
  /\ analysisResult' =
       [summary |-> IF analysisResult.summary.present THEN analysisResult.summary
                    ELSE [present |-> TRUE, totalIssues |-> 0, critical |-> 0,
                          warnings |-> 0, suggestions |-> 0,
                          documentLength |-> Len(originalText)],
        issues |-> IF analysisResult.issues.present THEN analysisResult.issues
                   ELSE [present |-> TRUE, items |-> <<>>]]
  /\ validatedIssues' = <<>>
  /\ validationStats' =
       [original |-> Len(analysisResult'.issues.items), validated |-> 0,
        invalidParagraphIndex |-> 0, missingSearchableText |-> 0]
  /\ i' = 0
  /\ pc' = "loop"
  /\ UNCHANGED <<originalText, paragraphs, result>>
  /\ UNCHANGED <<engineVars, handlerVars, limiterVars, matcherVars>>

ValidateIssueP ==
  /\ pc = "loop"
  /\ i < Len(analysisResult.issues.items)
  /\ LET issue == analysisResult.issues.items[i + 1]
         outcome == paragraphOutcome(issue, paragraphs)
     IN /\ i' = i + 1
        /\ pc' = IF outcome = "throw" THEN "thrown" ELSE "loop"
        /\ CASE outcome \in {"throw", "caught"} ->
                  UNCHANGED <<validatedIssues, validationStats>>
             [] outcome \in {"invalidParagraphIndex", "missingSearchableText"} ->
                  /\ validationStats' = Bump(validationStats, outcome)
                  /\ UNCHANGED validatedIssues
             [] outcome = "accepted" ->
                  /\ \E newId \in (IF issue.id = "" THEN RandomIds ELSE {issue.id}) :
                       validatedIssues' =
                         Append(validatedIssues,
                                acceptedIssue(issue, issue.exactText, newId))
                  /\ validationStats' = Bump(validationStats, "validated")
  /\ UNCHANGED <<originalText, paragraphs, analysisResult, result>>
  /\ UNCHANGED <<engineVars, handlerVars, limiterVars, matcherVars>>

FinishP ==
  /\ pc = "loop"
  /\ i = Len(analysisResult.issues.items)
  /\ result' = [summary |-> buildSummary(validatedIssues, analysisResult.summary,
                                         Len(originalText)),
                issues |-> validatedIssues,
                validationStats |-> validationStats,
                processingVersion |-> "2.0"]
  /\ pc' = "returned"
  /\ UNCHANGED <<originalText, paragraphs, analysisResult, i, validatedIssues,
                 validationStats>>
  /\ UNCHANGED <<engineVars, handlerVars, limiterVars, matcherVars>>

NextParagraph == StartP \/ ValidateIssueP \/ FinishP

\* ------------------------------------------------------------ the inputs
Alphabet == {"a", "b"}
Other(c) == IF c = "a" THEN "b" ELSE "a"

\* the analysed document: "ababa..." of DocLen characters
Document == [k \in 1..DocLen |-> IF k % 2 = 1 THEN "a" ELSE "b"]

\* text with its first n characters changed
Changed(text, n) == [k \in 1..Len(text) |-> IF k <= n THEN Other(text[k]) ELSE text[k]]

\* the texts a finding may quote: none, the empty string, the document, the
\* document without its first character, its first character, and the
\* document with two characters changed
QuotedTexts(text) ==
  {NoText, Str(<<>>), Str(text), Str(Tail(text)), Str(SubSeq(text, 1, 1)),
   Str(Changed(text, 2))}

\* <<startIndex, endIndex>>: integers inside and outside the document, and
\* absent and null indices
Locations ==
  {<<Num(-1), Num(DocLen)>>, <<Num(0), Num(DocLen + 1)>>, <<Num(1), Num(1)>>,
   <<Num(0), Num(DocLen)>>, <<Num(1), Num(DocLen)>>, <<Num(0), Num(1)>>,
   <<Undefined, Undefined>>, <<Undefined, Num(1)>>, <<Num(1), Undefined>>,
   <<Null, Num(DocLen)>>}

OffsetIssues(text) ==
  {NullIssue, PrimIssue, NoLocationIssue} \cup
  {Issue("obj", TRUE, "m1", "Critical", l[1], l[2], q, Undefined, NoText) :
     l \in Locations, q \in QuotedTexts(text)}

SeqsUpTo(S, n) == UNION {[1..m -> S] : m \in 0..n}

NoParagraphs == [present |-> FALSE, items |-> <<>>]

InitOffset ==
  /\ originalText = Document
  /\ paragraphs = NoParagraphs
  /\ analysisResult \in
       {[summary |-> NoSummary, issues |-> [present |-> TRUE, items |-> items]] :
          items \in SeqsUpTo(OffsetIssues(Document), MaxIssues)}
  /\ pc = "start"
  /\ i = 0
  /\ validatedIssues = <<>>
  /\ validationStats = [original |-> 0, validated |-> 0, indexErrors |-> 0,
                        textMismatches |-> 0]
  /\ result = NoResult
  /\ EngineIdle /\ HandlerIdle /\ LimiterIdle /\ MatcherIdle

SpecOffset == InitOffset /\ [][NextOffset]_vars

\* ---- inputs of the paragraph form
ParagraphTexts == {<<"a", "b">>, <<"b">>}

\* documentStructure.paragraphs: absent (the plain-text request), or up to
\* MaxParagraphs paragraphs
ParagraphLists ==
  {NoParagraphs} \cup
  {[present |-> TRUE, items |-> ps] : ps \in SeqsUpTo(ParagraphTexts, MaxParagraphs)}

ParagraphIndices ==
  {Undefined, Null} \cup {Num(n) : n \in -1..MaxParagraphs}

SearchableTexts == {NoText, Str(<<>>), Str(<<"a">>), Str(<<"b", "a">>)}

ParagraphIssues ==
  {NullIssue, PrimIssue, NoLocationIssue} \cup
  {Issue("obj", TRUE, "m1", "Warning", Undefined, Undefined, NoText, p, q) :
     p \in ParagraphIndices, q \in SearchableTexts}

InitParagraph ==
  /\ originalText = Document
  /\ paragraphs \in ParagraphLists
  /\ analysisResult \in
       {[summary |-> NoSummary, issues |-> [present |-> TRUE, items |-> items]] :
          items \in SeqsUpTo(ParagraphIssues, MaxIssues)}
  /\ pc = "start"
  /\ i = 0
  /\ validatedIssues = <<>>
  /\ validationStats = [original |-> 0, validated |-> 0,
                        invalidParagraphIndex |-> 0, missingSearchableText |-> 0]
  /\ result = NoResult
  /\ EngineIdle /\ HandlerIdle /\ LimiterIdle /\ MatcherIdle

SpecParagraph == InitParagraph /\ [][NextParagraph]_vars

\* ---- inputs for the summary: findings that differ in severity and id,
\* inside and outside the document, and replies with and without a summary
Severities == {"Critical", "Warning", "Suggestion", "Info", "undefined"}

SummaryIssues(text) ==
  {Issue("obj", TRUE, id, sev, Num(0), e, Str(text), Undefined, NoText) :
     id \in {"", "m1"}, sev \in Severities,
     e \in {Num(Len(text)), Num(Len(text) + 1)}}

ReportedSummaries ==
  {NoSummary} \cup
  {[present |-> TRUE, totalIssues |-> t, critical |-> c, warnings |-> 0,
    suggestions |-> 0, documentLength |-> 0] : t \in {0, 7}, c \in {0, 7}}

IssueArrays(S) ==
  {[present |-> FALSE, items |-> <<>>]} \cup
  {[present |-> TRUE, items |-> items] : items \in SeqsUpTo(S, MaxIssues)}

InitSummary ==
  /\ originalText = Document
  /\ paragraphs = NoParagraphs
  /\ analysisResult \in
       {[summary |-> sm, issues |-> is] :
          sm \in ReportedSummaries, is \in IssueArrays(SummaryIssues(Document))}
  /\ pc = "start"
  /\ i = 0
  /\ validatedIssues = <<>>
  /\ validationStats = [original |-> 0, validated |-> 0, indexErrors |-> 0,
                        textMismatches |-> 0]
  /\ result = NoResult
  /\ EngineIdle /\ HandlerIdle /\ LimiterIdle /\ MatcherIdle

SpecSummary == InitSummary /\ [][NextOffset]_vars

\* ---- inputs for the order of the survivors: findings with integer
\* indices that differ in id and category; two of the four locations survive
WithCategory(issue, category) == [issue EXCEPT !.category = category]

OrderLocations(text) ==
  {<<Num(Len(text)), Str(text)>>, <<Num(Len(text)), Str(Tail(text))>>,
   <<Num(Len(text) + 1), Str(text)>>, <<Num(Len(text)), Str(SubSeq(text, 1, 1))>>}

OrderIssues(text) ==
  {WithCategory(Issue("obj", TRUE, id, "Warning", Num(0), l[1], l[2], Undefined, NoText), c) :
     id \in {"m1", "m2"}, c \in {"Font", "Format"}, l \in OrderLocations(text)}

InitOrder ==
  /\ originalText = Document
  /\ paragraphs = NoParagraphs
  /\ analysisResult \in
       {[summary |-> NoSummary, issues |-> [present |-> TRUE, items |-> items]] :
          items \in SeqsUpTo(OrderIssues(Document), MaxIssues)}
  /\ pc = "start"
  /\ i = 0
  /\ validatedIssues = <<>>
  /\ validationStats = [original |-> 0, validated |-> 0, indexErrors |-> 0,
                        textMismatches |-> 0]
  /\ result = NoResult
  /\ EngineIdle /\ HandlerIdle /\ LimiterIdle /\ MatcherIdle

SpecOrder == InitOrder /\ [][NextOffset]_vars

\* ------------------------------------ analyzeDocument: lib/llmService.js
MaxReply == 5        \* most tokens of the reply's text

\* The reply's text is a sequence of tokens: the braces and brackets, "n" a
\* number literal other than 0, "0" the literal null, "w" a stretch of prose
\* without braces or brackets.  The JSON texts over these tokens are
\*   value ::= n | 0 | [ ] | [ value ] | { } | { value }
\* where { value } stands for {"issues": value}.
Tokens == {"{", "}", "[", "]", "n", "0", "w"}

Positions(text, token) == {p \in 1..Len(text) : text[p] = token}
MinOf(S) == CHOOSE x \in S : \A y \in S : x <= y
MaxOf(S) == CHOOSE x \in S : \A y \in S : x >= y

NoMatch == [found |-> FALSE, text |-> <<>>]

\* a match that stops at the first closing brace
jsonMatchLazy(text) ==
  LET opens == Positions(text, "{")
      closes == {p \in Positions(text, "}") : opens # {} /\ p > MinOf(opens)}
  IN IF closes = {} THEN NoMatch
     ELSE [found |-> TRUE, text |-> SubSeq(text, MinOf(opens), MinOf(closes))]

\* content.match(/\{[\s\S]*\}/): from the first "{" that has a "}" after it
\* to the last "}"
jsonMatch(text) ==
  LET opens == Positions(text, "{")
      closes == Positions(text, "}")
  IN IF opens = {} \/ closes = {} \/ MinOf(opens) > MaxOf(closes) THEN NoMatch
     ELSE [found |-> TRUE, text |-> SubSeq(text, MinOf(opens), MaxOf(closes))]

Closer(token) == IF token = "{" THEN "}" ELSE "]"
Value(kind, elems) == [kind |-> kind, elems |-> elems]
ParseFailure == [ok |-> FALSE, value |-> Value("none", <<>>), next |-> 0]

\* the value that starts at position p of text, and the position after it
RECURSIVE parseValue(_, _)
parseValue(text, p) ==
  IF p > Len(text) THEN ParseFailure
  ELSE IF text[p] = "n" THEN [ok |-> TRUE, value |-> Value("number", <<>>), next |-> p + 1]
  ELSE IF text[p] = "0" THEN [ok |-> TRUE, value |-> Value("null", <<>>), next |-> p + 1]
  ELSE IF text[p] \in {"{", "["}
  THEN LET kind == IF text[p] = "{" THEN "object" ELSE "array"
       IN IF p + 1 <= Len(text) /\ text[p + 1] = Closer(text[p])
          THEN [ok |-> TRUE, value |-> Value(kind, <<>>), next |-> p + 2]
          ELSE LET inner == parseValue(text, p + 1)
               IN IF inner.ok /\ inner.next <= Len(text)
                       /\ text[inner.next] = Closer(text[p])
                  THEN [ok |-> TRUE, value |-> Value(kind, <<inner.value>>),
                        next |-> inner.next + 1]
                  ELSE ParseFailure
  ELSE ParseFailure

\* JSON.parse(text): the whole text is one value
JsonParse(text) ==
  LET r == parseValue(text, 1)
  IN IF r.ok /\ r.next = Len(text) + 1 THEN r ELSE ParseFailure

EmptyObjectIssue ==
  Issue("obj", FALSE, "", "undefined", Undefined, Undefined, NoText, Undefined, NoText)

\* an element of the issues array, as the loop sees it
ElementIssue(value) ==
  IF value.kind = "null" THEN NullIssue
  ELSE IF value.kind = "number" THEN PrimIssue
  ELSE EmptyObjectIssue

\* What validateAndProcessResults gets from the parsed value.  It throws a
\* TypeError before its loop when the value is null or a number (line 196;
\* the module is strict, so line 197 cannot set a property of a number), or
\* when issues is an object or a number, which for..of cannot iterate
\* (line 219).  A bare array is an object without summary and issues.
Decode(value) ==
  IF value.kind \in {"null", "number"} THEN [throws |-> TRUE, issues |-> [present |-> FALSE, items |-> <<>>]]
  ELSE IF value.kind = "array" \/ value.elems = <<>> \/ value.elems[1].kind = "null"
  THEN [throws |-> FALSE, issues |-> [present |-> FALSE, items |-> <<>>]]
  ELSE IF value.elems[1].kind # "array"
  THEN [throws |-> TRUE, issues |-> [present |-> FALSE, items |-> <<>>]]
  ELSE [throws |-> FALSE,
        issues |-> [present |-> TRUE,
                    items |-> [k \in 1..Len(value.elems[1].elems) |->
                                 ElementIssue(value.elems[1].elems[k])]]]

\* an error in flight inside analyzeDocument's try block
Caught(message, type) ==
  [thrown |-> FALSE, message |-> message, type |-> type, code |-> "undefined"]

\* the errors anthropic.messages.create may fail with: error.type, and
\* whether error.message includes 'timeout'
UpstreamErrors ==
  {Caught("upstream", t) : t \in {"rate_limit_error", "authentication_error",
                                 "overloaded_error", "undefined"}}
  \cup {Caught("timeout", "undefined")}

\* where analyzeDocument goes when the call or the parse fails
afterFailureRetryParse(what) == IF what = "parse" THEN "invoke" ELSE "catch"

afterFailure(what) == "catch"

MaxDocumentLength == 200000

\* documentText.length, and the characters of documentText
Length(document) == Len(document.head) + document.run
Text(document) == document.head \o [k \in 1..document.run |-> "a"]

\* a size test that also refuses a document of exactly the limit
tooLargeAtLimit(document) == Length(document) >= MaxDocumentLength

\* documentText.length > 200000, line 139
tooLarge(document) == Length(document) > MaxDocumentLength

\* lines 136-141
Analyze ==
  /\ apc = "called"
  /\ IF tooLarge(documentText)
     THEN /\ error' = Caught("Document too large", "undefined")
          /\ apc' = "catch"
     ELSE /\ apc' = "invoke"
          /\ UNCHANGED error
  /\ UNCHANGED <<content, modelCalls, jsonText, documentText>>
  /\ UNCHANGED <<validatorVars, handlerVars, limiterVars, matcherVars>>

\* lines 143-156, the reply being one of replies
InvokeModelWith(replies) ==
  /\ apc = "invoke"
  /\ modelCalls' = modelCalls + 1
  /\ \/ /\ content' \in replies
        /\ apc' = "parse"
        /\ UNCHANGED error
     \/ /\ error' \in UpstreamErrors
        /\ apc' = afterFailure("call")
        /\ UNCHANGED content
  /\ UNCHANGED <<jsonText, documentText>>
  /\ UNCHANGED <<validatorVars, handlerVars, limiterVars, matcherVars>>

InvokeModel == InvokeModelWith(SeqsUpTo(Tokens, MaxReply))

\* lines 159-171, up to the loop of validateAndProcessResults
ParseReply ==
  /\ apc = "parse"
  /\ LET m == jsonMatch(content)
         text == IF m.found THEN m.text ELSE content
         parsed == JsonParse(text)
     IN /\ jsonText' = text
        /\ IF ~parsed.ok
           THEN /\ error' = Caught("Invalid JSON response from Claude", "undefined")
                /\ apc' = afterFailure("parse")
                /\ UNCHANGED <<analysisResult, originalText, pc>>
           ELSE IF Decode(parsed.value).throws
           THEN /\ error' = Caught("TypeError", "undefined")
                /\ apc' = "catch"
                /\ UNCHANGED <<analysisResult, originalText, pc>>
           ELSE /\ analysisResult' = [summary |-> NoSummary,
                                      issues |-> Decode(parsed.value).issues]
                /\ originalText' = Text(documentText)
                /\ pc' = "start"
                /\ apc' = "validate"
                /\ UNCHANGED error
  /\ UNCHANGED <<content, modelCalls, documentText>>
  /\ UNCHANGED <<paragraphs, i, validatedIssues, validationStats, result>>
  /\ UNCHANGED <<handlerVars, limiterVars, matcherVars>>

\* lines 173-175
AnalyzeReturn ==
  /\ apc = "validate"
  /\ pc = "returned"
  /\ apc' = "done"
  /\ UNCHANGED <<content, modelCalls, error, jsonText, documentText>>
  /\ UNCHANGED <<validatorVars, handlerVars, limiterVars, matcherVars>>

\* the message of the error the catch block throws, lines 180-190
Rethrown(caught) ==
  IF caught.type = "rate_limit_error" THEN "Rate limit exceeded. Please wait and try again."
  ELSE IF caught.type = "authentication_error" THEN "Invalid API key. Please check your Anthropic API key."
  ELSE IF caught.type = "overloaded_error" THEN "Claude is overloaded. Please try again in a moment."
  ELSE IF caught.message = "timeout" THEN "Analysis timeout. Document may be too complex."
  ELSE "Analysis failed: " \o caught.message

\* lines 177-191: every error leaves as a new Error, which has a message and
\* neither type nor code
AnalyzeCatch ==
  /\ \/ apc = "catch"
     \/ apc = "validate" /\ pc = "thrown"
  /\ error' = [thrown |-> TRUE,
               message |-> Rethrown(IF apc = "catch" THEN error
                                    ELSE Caught("TypeError", "undefined")),
               type |-> "undefined", code |-> "undefined"]
  /\ apc' = "failed"
  /\ UNCHANGED <<content, modelCalls, jsonText, documentText>>
  /\ UNCHANGED <<validatorVars, handlerVars, limiterVars, matcherVars>>

NextAnalyze ==
  \/ Analyze \/ InvokeModel \/ ParseReply
  \/ Start \/ ValidateIssue \/ Finish
  \/ AnalyzeReturn \/ AnalyzeCatch

InitAnalyze ==
  /\ documentText = [head |-> Document, run |-> 0]
  /\ originalText = <<>>
  /\ paragraphs = NoParagraphs
  /\ analysisResult = [summary |-> NoSummary, issues |-> [present |-> FALSE, items |-> <<>>]]
  /\ pc = "idle"
  /\ i = 0
  /\ validatedIssues = <<>>
  /\ validationStats = [original |-> 0, validated |-> 0, indexErrors |-> 0,
                        textMismatches |-> 0]
  /\ result = NoResult
  /\ content = <<>> /\ apc = "called" /\ modelCalls = 0 /\ error = NoError
  /\ jsonText = <<>>
  /\ HandlerIdle /\ LimiterIdle /\ MatcherIdle

SpecAnalyze == InitAnalyze /\ [][NextAnalyze]_vars

\* a short document, and documents at the size limit and just past it
SizeDocuments ==
  {[head |-> Document, run |-> 0]}
  \cup {[head |-> <<>>, run |-> MaxDocumentLength + d] : d \in {0, 1, 2}}

InitSize ==
  /\ documentText \in SizeDocuments
  /\ originalText = <<>>
  /\ paragraphs = NoParagraphs
  /\ analysisResult = [summary |-> NoSummary, issues |-> [present |-> FALSE, items |-> <<>>]]
  /\ pc = "idle"
  /\ i = 0
  /\ validatedIssues = <<>>
  /\ validationStats = [original |-> 0, validated |-> 0, indexErrors |-> 0,
                        textMismatches |-> 0]
  /\ result = NoResult
  /\ content = <<>> /\ apc = "called" /\ modelCalls = 0 /\ error = NoError
  /\ jsonText = <<>>
  /\ HandlerIdle /\ LimiterIdle /\ MatcherIdle

\* replies of every kind: unparseable, bare values, objects with and
\* without findings, prose around an object
SizeReplies ==
  {<<>>, <<"w">>, <<"n">>, <<"0">>, <<"{">>, <<"[", "]">>, <<"[", "n", "]">>,
   <<"{", "}">>, <<"{", "n", "}">>, <<"{", "0", "}">>, <<"{", "[", "]", "}">>,
   <<"{", "[", "0", "]", "}">>, <<"{", "[", "n", "]", "}">>,
   <<"{", "[", "{", "}", "]", "}">>, <<"w", "{", "}">>, <<"{", "}", "w">>}

InvokeModelSize == InvokeModelWith(SizeReplies)

NextSize ==
  \/ Analyze \/ InvokeModelSize \/ ParseReply
  \/ Start \/ ValidateIssue \/ Finish
  \/ AnalyzeReturn \/ AnalyzeCatch

SpecSize == InitSize /\ [][NextSize]_vars

\* ------------------------------------------- the analyze handler: part_000
\* a field that should hold text: undefined, a string (head, then run times
\* "a"), or a number
Field(kind, head, run) == [kind |-> kind, head |-> head, run |-> run]
NoField == Field("undefined", <<>>, 0)
NumberField == Field("number", <<>>, 0)
StringOfLength(n) == Field("string", <<>>, n)

\* documentStructure: undefined, an object, or a string
Structure(kind, fullText, paras) ==
  [kind |-> kind, fullText |-> fullText, paragraphs |-> paras]
NoStructure == Structure("undefined", NoField, NoParagraphs)

Body(text, structure, analysisMode, userId) ==
  [present |-> TRUE, documentText |-> text, documentStructure |-> structure,
   analysisMode |-> analysisMode, userId |-> userId]
NoBody == [present |-> FALSE, documentText |-> NoField,
           documentStructure |-> NoStructure, analysisMode |-> "undefined",
           userId |-> "undefined"]

\* field.length
LengthOf(field) ==
  IF field.kind = "string" THEN Num(Len(field.head) + field.run) ELSE Undefined

Truthy(field) ==
  \/ field.kind = "number"
  \/ field.kind = "string" /\ Len(field.head) + field.run > 0

MinTextLength == 100

\* lib/utils.js validateRequest: the errors it collects
validateRequest(body) ==
  IF ~body.present THEN {"Request body is required"}
  ELSE LET text == body.documentText
           structure == body.documentStructure
       IN (IF ~Truthy(text) /\ structure.kind = "undefined"
           THEN {"Either documentText or documentStructure is required"}
           ELSE IF Truthy(text)
           THEN IF text.kind # "string"
                THEN {"documentText must be a string"}
                ELSE IF JsLt(LengthOf(text), Num(MinTextLength))
                THEN {"documentText is too short"}
                ELSE IF JsGt(LengthOf(text), Num(MaxDocumentLength))
                THEN {"documentText is too long"}
                ELSE {}
           ELSE IF structure.kind # "object"
                THEN {"documentStructure must be an object"}
                ELSE IF ~Truthy(structure.fullText)
                THEN {"documentStructure.fullText is required"}
                ELSE IF ~structure.paragraphs.present
                THEN {"documentStructure.paragraphs must be an array"}
                ELSE IF JsLt(LengthOf(structure.fullText), Num(MinTextLength))
                THEN {"documentStructure.fullText is too short"}
                ELSE IF JsGt(LengthOf(structure.fullText), Num(MaxDocumentLength))
                THEN {"documentStructure.fullText is too long"}
                ELSE {})
          \cup (IF body.analysisMode \notin {"undefined", "llm", "rules", "hybrid"}
                THEN {"analysisMode must be one of: llm, rules, hybrid"} ELSE {})
          \cup (IF body.userId = "tooLong"
                THEN {"userId must be a string with maximum 100 characters"} ELSE {})

\* the text the engine measures: a field that is no string has no length
Argument(field) ==
  IF field.kind = "string" THEN [head |-> field.head, run |-> field.run]
  ELSE NoDocument

Responded(status, code) == [status |-> status, code |-> code]

\* lines 5-45: up to the call of analyzeDocument
HandleRequest ==
  /\ hpc = "received"
  /\ IF request.method = "OPTIONS"
     THEN /\ response' = Responded(200, "")
          /\ hpc' = "responded"
          /\ UNCHANGED <<apc, documentText, paragraphs>>
     ELSE IF request.method # "POST"
     THEN /\ response' = Responded(405, "")
          /\ hpc' = "responded"
          /\ UNCHANGED <<apc, documentText, paragraphs>>
     ELSE IF validateRequest(request.body) # {}
     THEN /\ response' = Responded(400, "")
          /\ hpc' = "responded"
          /\ UNCHANGED <<apc, documentText, paragraphs>>
     ELSE /\ hpc' = "awaiting"
          /\ apc' = "called"
          /\ IF request.body.documentStructure.kind # "undefined"
             THEN /\ documentText' = Argument(request.body.documentStructure.fullText)
                  /\ paragraphs' = request.body.documentStructure.paragraphs
             ELSE /\ documentText' = Argument(request.body.documentText)
                  /\ paragraphs' = NoParagraphs
          /\ UNCHANGED response
  /\ UNCHANGED <<request, content, modelCalls, error, jsonText>>
  /\ UNCHANGED <<originalText, analysisResult, pc, i, validatedIssues, validationStats, result>>
  /\ UNCHANGED <<limiterVars, matcherVars>>

\* error.code === ... ? ... : 500, lines 67-69
statusCode(code) ==
  IF code = "RATE_LIMIT_EXCEEDED" THEN 429
  ELSE IF code = "INVALID_API_KEY" THEN 401
  ELSE IF code = "DOCUMENT_TOO_LARGE" THEN 413
  ELSE 500

\* error.code || 'INTERNAL_ERROR', line 74
codeOrInternal(code) == IF code = "undefined" THEN "INTERNAL_ERROR" ELSE code

\* lines 47-61: the engine returned; documentText.length of an undefined
\* documentText throws a TypeError, which the catch block answers
RespondSuccess ==
  /\ hpc = "awaiting"
  /\ apc = "done"
  /\ response' = IF request.body.documentText.kind = "undefined"
                 THEN Responded(statusCode("undefined"), codeOrInternal("undefined"))
                 ELSE Responded(200, "")
  /\ hpc' = "responded"
  /\ UNCHANGED <<request, validatorVars, engineVars, limiterVars, matcherVars>>

\* lines 63-76: the engine threw
RespondFailure ==
  /\ hpc = "awaiting"
  /\ apc = "failed"
  /\ response' = Responded(statusCode(error.code), codeOrInternal(error.code))
  /\ hpc' = "responded"
  /\ UNCHANGED <<request, validatorVars, engineVars, limiterVars, matcherVars>>

\* The handler passes a document structure, the argument of the paragraph
\* form of analyzeDocument; that form has the steps of the offset form, and
\* measures documentStructure.fullText where the offset form measures
\* documentText.
NextHandler ==
  \/ HandleRequest
  \/ Analyze \/ InvokeModelSize \/ ParseReply
  \/ StartP \/ ValidateIssueP \/ FinishP
  \/ AnalyzeReturn \/ AnalyzeCatch
  \/ RespondSuccess \/ RespondFailure

TextFields ==
  {NoField, NumberField}
  \cup {StringOfLength(n) : n \in {0, MinTextLength - 1, MinTextLength,
                                   MaxDocumentLength, MaxDocumentLength + 1}}

Structures ==
  {NoStructure, Structure("string", NoField, NoParagraphs)}
  \cup {Structure("object", f, ps) :
          f \in TextFields,
          ps \in {NoParagraphs, [present |-> TRUE, items |-> <<>>],
                  [present |-> TRUE, items |-> <<<<"a", "b">>>>]}}

Bodies ==
  {NoBody} \cup
  {Body(t, d, m, u) : t \in TextFields, d \in Structures,
                      m \in {"undefined", "llm", "fast"}, u \in {"undefined", "u1", "tooLong"}}

Requests == [method : {"OPTIONS", "GET", "POST"}, body : Bodies]

InitHandler ==
  /\ request \in Requests
  /\ hpc = "received"
  /\ response = NoResponse
  /\ originalText = <<>>
  /\ paragraphs = NoParagraphs
  /\ analysisResult = [summary |-> NoSummary, issues |-> [present |-> FALSE, items |-> <<>>]]
  /\ pc = "idle"
  /\ i = 0
  /\ validatedIssues = <<>>
  /\ validationStats = [original |-> 0, validated |-> 0, invalidParagraphIndex |-> 0,
                        missingSearchableText |-> 0]
  /\ result = NoResult
  /\ EngineIdle
  /\ LimiterIdle /\ MatcherIdle

SpecHandler == InitHandler /\ [][NextHandler]_vars

\* ------------------------------------------------ rateLimit: lib/rateLimit.js
MaxCalls == 6        \* most calls of rateLimit in the one-key runs
MaxSweepCalls == 5   \* most calls of rateLimit in the two-key runs
TestedMax == 2       \* max of the limit under test in the two-key runs

AnalyzeWindowMs == 900000
AnalyzeMax == 5
HealthWindowMs == 60000
HealthMax == 60

\* the limits of rateLimitAdvanced, lines 110-111
AnalyzeLimit == [windowMs |-> AnalyzeWindowMs, max |-> AnalyzeMax]
HealthLimit == [windowMs |-> HealthWindowMs, max |-> HealthMax]

\* Math.ceil(ms / 1000)
CeilSeconds(ms) == (ms + 999) \div 1000

\* Math.min(...requests), of requests that are not empty
Oldest(requests) ==
  CHOOSE t \in {requests[k] : k \in 1..Len(requests)} :
    \A k \in 1..Len(requests) : t <= requests[k]

\* requests.filter(time => time > cutoff)
Recent(requests, cutoff) == SelectSeq(requests, LAMBDA time : time > cutoff)

\* a removal test that does not look at the reset time
expiredWhenEmpty(entry, cutoffTime, at) == Recent(entry.requests, cutoffTime) = <<>>

\* data.requests.length === 0 && data.resetTime < Date.now(), line 78, of
\* the requests line 75 has filtered
expired(entry, cutoffTime, at) ==
  /\ Recent(entry.requests, cutoffTime) = <<>>
  /\ entry.resetTime < at

\* cleanupOldEntries(cutoffTime) at time at, lines 71-84
cleanupOldEntries(store, cutoffTime, at) ==
  LET kept == {key \in DOMAIN store : ~expired(store[key], cutoffTime, at)}
  IN [key \in kept |-> [requests |-> Recent(store[key].requests, cutoffTime),
                        resetTime |-> store[key].resetTime]]

\* a limit test that lets one call more through
limitReachedStrict(requests, max) == Len(requests) > max

\* rateLimitData.requests.length >= max, line 37
limitReached(requests, max) == Len(requests) >= max

Decision(key, options, at, success, remaining, retryAfter) ==
  [key |-> key, options |-> options, at |-> at, success |-> success,
   remaining |-> remaining, retryAfter |-> retryAfter]

\* rateLimit(req, options) at time at, lines 6-61, by the client key on the
\* Map store: the Map it leaves and the value it returns; sweep is
\* Math.random() < 0.01
rateLimit(store, key, options, sweep, at) ==
  LET windowStart == at - options.windowMs
      swept == IF sweep THEN cleanupOldEntries(store, windowStart, at)
               ELSE store
      data == IF key \in DOMAIN swept THEN swept[key]
              ELSE [requests |-> <<>>, resetTime |-> at + options.windowMs]
      requests == Recent(data.requests, windowStart)
      Put(entry) == [k \in DOMAIN swept \cup {key} |->
                       IF k = key THEN entry ELSE swept[k]]
  IN IF limitReached(requests, options.max)
     THEN [store |-> Put([requests |-> requests, resetTime |-> data.resetTime]),
           decision |-> Decision(key, options, at, FALSE, 0,
                          CeilSeconds(Oldest(requests) + options.windowMs - at))]
     ELSE [store |-> Put([requests |-> Append(requests, at),
                          resetTime |-> at + options.windowMs]),
           decision |-> Decision(key, options, at, TRUE,
                          options.max - (Len(requests) + 1), 0)]

\* a call of rateLimit delta milliseconds after the previous one
CallOn(store, key, options, sweep, delta) ==
  LET returned == rateLimit(store, key, options, sweep, now + delta)
  IN /\ now' = now + delta
     /\ rateLimitStore' = returned.store
     /\ decisions' = Append(decisions, returned.decision)
     /\ UNCHANGED <<validatorVars, engineVars, handlerVars, matcherVars>>

\* a call outside any task
Call(key, options, sweep, delta) ==
  CallOn(rateLimitStore, key, options, sweep, delta) /\ UNCHANGED tasks

\* milliseconds between calls: the next instant, a third of the analyze
\* window, the whole window
WindowDeltas == {1, AnalyzeWindowMs \div 3, AnalyzeWindowMs}

\* one client calling with the limits of rateLimitAdvanced
CallWindow ==
  /\ Len(decisions) < MaxCalls
  /\ \E options \in {AnalyzeLimit, HealthLimit}, sweep \in BOOLEAN, delta \in WindowDeltas :
       Call("k1", options, sweep, delta)

InitLimiter ==
  /\ originalText = <<>>
  /\ paragraphs = NoParagraphs
  /\ analysisResult = [summary |-> NoSummary, issues |-> [present |-> FALSE, items |-> <<>>]]
  /\ pc = "idle"
  /\ i = 0
  /\ validatedIssues = <<>>
  /\ validationStats = [original |-> 0, validated |-> 0, indexErrors |-> 0,
                        textMismatches |-> 0]
  /\ result = NoResult
  /\ EngineIdle /\ HandlerIdle /\ LimiterIdle /\ MatcherIdle

SpecWindow == InitLimiter /\ [][CallWindow]_vars

\* key k1 always calls with one limit, key k2 with the health limit
OptionsOf(key) ==
  IF key = "k1" THEN [windowMs |-> AnalyzeWindowMs, max |-> TestedMax]
  ELSE HealthLimit

SweepDeltas == {1, HealthWindowMs, AnalyzeWindowMs}

CallSweep ==
  /\ Len(decisions) < MaxSweepCalls
  /\ \E key \in {"k1", "k2"}, sweep \in BOOLEAN, delta \in SweepDeltas :
       Call(key, OptionsOf(key), sweep, delta)

SpecSweep == InitLimiter /\ [][CallSweep]_vars

\* ------------------------------------------------------ rateLimitAdvanced
MaxAdvancedCalls == 7   \* most calls of rateLimitAdvanced

DefaultMax == 10
DefaultLimit == [windowMs |-> AnalyzeWindowMs, max |-> DefaultMax]

Endpoints == {"/api/v1/analyze", "/api/v1/health", "/api/v1/other"}

\* limits[endpoint] || limits.default, lines 109-115
limitOf(endpoint) ==
  IF endpoint = "/api/v1/analyze" THEN AnalyzeLimit
  ELSE IF endpoint = "/api/v1/health" THEN HealthLimit
  ELSE DefaultLimit

\* milliseconds between calls: the next instant, the health window
AdvancedDeltas == {1, HealthWindowMs}

\* rateLimitAdvanced(req, endpoint), lines 108-117: the key is the client's
\* address, whatever the endpoint
CallAdvanced ==
  /\ Len(decisions) < MaxAdvancedCalls
  /\ \E endpoint \in Endpoints, sweep \in BOOLEAN, delta \in AdvancedDeltas :
       Call("k1", limitOf(endpoint), sweep, delta)

SpecAdvanced == InitLimiter /\ [][CallAdvanced]_vars

\* ------------------------------------- tasks that call rateLimit together
MaxTasks == 3        \* request-handling tasks

\* A task is a handler run that awaits rateLimit: idle, arrived (the request
\* is in, rateLimit not yet called), awaiting (rateLimit has returned its
\* promise), resumed.  seen is the Map as it was when the task arrived.
Task(at, seen, decision) == [pc |-> at, seen |-> seen, decision |-> decision]

\* a call that acts on the Map as it was when its task arrived
storeAtArrival(t) == tasks[t].seen

\* rateLimit has no await: from rateLimitStore.get (line 23) to its return
\* it runs on the live Map, and no other task runs in between
storeAtCall(t) == rateLimitStore

\* milliseconds between calls: none, the next instant, the whole window
TaskDeltas == {0, 1, AnalyzeWindowMs}

TaskArrive(t) ==
  /\ tasks[t].pc = "idle"
  /\ tasks' = [tasks EXCEPT ![t] = Task("arrived", rateLimitStore, 0)]
  /\ UNCHANGED <<rateLimitStore, now, decisions>>
  /\ UNCHANGED <<validatorVars, engineVars, handlerVars, matcherVars>>

TaskCall(t) ==
  /\ tasks[t].pc = "arrived"
  /\ \E sweep \in BOOLEAN, delta \in TaskDeltas :
       CallOn(storeAtCall(t), "k1", OptionsOf("k1"), sweep, delta)
  /\ tasks' = [tasks EXCEPT ![t] = Task("awaiting", tasks[t].seen, Len(decisions) + 1)]

TaskResume(t) ==
  /\ tasks[t].pc = "awaiting"
  /\ tasks' = [tasks EXCEPT ![t] = Task("resumed", tasks[t].seen, tasks[t].decision)]
  /\ UNCHANGED <<rateLimitStore, now, decisions>>
  /\ UNCHANGED <<validatorVars, engineVars, handlerVars, matcherVars>>

NextTasks ==
  \E t \in 1..MaxTasks : TaskArrive(t) \/ TaskCall(t) \/ TaskResume(t)

InitTasks ==
  /\ originalText = <<>>
  /\ paragraphs = NoParagraphs
  /\ analysisResult = [summary |-> NoSummary, issues |-> [present |-> FALSE, items |-> <<>>]]
  /\ pc = "idle"
  /\ i = 0
  /\ validatedIssues = <<>>
  /\ validationStats = [original |-> 0, validated |-> 0, indexErrors |-> 0,
                        textMismatches |-> 0]
  /\ result = NoResult
  /\ EngineIdle /\ HandlerIdle
  /\ rateLimitStore = <<>> /\ now = 0 /\ decisions = <<>>
  /\ tasks = [t \in 1..MaxTasks |-> Task("idle", <<>>, 0)]
  /\ MatcherIdle

SpecTasks == InitTasks /\ [][NextTasks]_vars

\* --------------------------------------------- the matcher called directly
MaxLen == 4          \* longest argument of the matcher

\* characters that differ in case, and a space
MatcherAlphabet == {"a", "A", " "}

CallFuzzyMatch ==
  /\ mpc = "ready"
  /\ matched' = fuzzyMatch(text1, text2)
  /\ mpc' = "fuzzyMatch"
  /\ UNCHANGED <<text1, text2, distance>>
  /\ UNCHANGED <<validatorVars, engineVars, handlerVars, limiterVars>>

CallLevenshteinDistance ==
  /\ mpc = "ready"
  /\ distance' = levenshteinDistance(text1, text2)
  /\ mpc' = "levenshteinDistance"
  /\ UNCHANGED <<text1, text2, matched>>
  /\ UNCHANGED <<validatorVars, engineVars, handlerVars, limiterVars>>

NextMatcher == CallFuzzyMatch \/ CallLevenshteinDistance

InitMatcher ==
  /\ text1 \in SeqsUpTo(MatcherAlphabet, MaxLen)
  /\ text2 \in SeqsUpTo(MatcherAlphabet, MaxLen)
  /\ mpc = "ready"
  /\ matched = FALSE
  /\ distance = 0
  /\ originalText = <<>>
  /\ paragraphs = NoParagraphs
  /\ analysisResult = [summary |-> NoSummary, issues |-> [present |-> FALSE, items |-> <<>>]]
  /\ pc = "idle"
  /\ i = 0
  /\ validatedIssues = <<>>
  /\ validationStats = [original |-> 0, validated |-> 0, indexErrors |-> 0,
                        textMismatches |-> 0]
  /\ result = NoResult
  /\ EngineIdle /\ HandlerIdle
  /\ rateLimitStore = <<>> /\ now = 0 /\ decisions = <<>> /\ tasks = <<>>

SpecMatcher == InitMatcher /\ [][NextMatcher]_vars

\* ================================================================ claims
IsInteger(v) == v.t = "num"
Items == analysisResult.issues.items
Returned == pc = "returned"

\* fullText[s:e] for integers 0 <= s <= e <= Len(text)
Slice(text, s, e) == [k \in 1..(e - s) |-> text[s + k]]

HasIntegerIndices(f) ==
  f.kind = "obj" /\ f.hasLocation /\ IsInteger(f.startIndex) /\ IsInteger(f.endIndex)

InBounds(f) ==
  /\ HasIntegerIndices(f)
  /\ 0 <= f.startIndex.n
  /\ f.startIndex.n < f.endIndex.n
  /\ f.endIndex.n <= Len(originalText)

OutOfBounds(f) ==
  /\ HasIntegerIndices(f)
  /\ \/ f.startIndex.n < 0
     \/ f.endIndex.n > Len(originalText)
     \/ f.startIndex.n >= f.endIndex.n

Actual(f) == Slice(originalText, f.startIndex.n, f.endIndex.n)

\* (max(len) - editDistance) / max(len) >= 0.8
Similar(a, b) ==
  LET m == Max2(Len(a), Len(b))
  IN m > 0 /\ ThresholdDen * (m - levenshteinDistance(a, b)) >= ThresholdNum * m

\* the loop is about to take finding f
Taking(f) == pc = "loop" /\ i < Len(Items) /\ Items[i + 1] = f

SameSpan(f, g) ==
  g.startIndex = f.startIndex /\ g.endIndex = f.endIndex

\* C1: offset form: every finding of the returned issues has integer indices
\* with 0 <= startIndex < endIndex <= len(fullText) and an exactText equal to
\* fullText[startIndex:endIndex], whatever the reply supplied.
C1_ReturnedSpansAreValid ==
  Returned =>
    \A j \in 1..Len(result.issues) :
      /\ InBounds(result.issues[j])
      /\ result.issues[j].exactText = Str(Actual(result.issues[j]))

\* C2: offset form: a finding with integer indices outside the document, or
\* with startIndex >= endIndex, is not appended to the survivors, adds
\* exactly one to indexErrors and nothing to textMismatches, whatever its
\* exactText; no such finding is in the returned issues.
C2_OutOfBoundsCountedOnce ==
  /\ [][\A f \in {Items[k] : k \in 1..Len(Items)} :
          (Taking(f) /\ OutOfBounds(f)) =>
            /\ validatedIssues' = validatedIssues
            /\ validationStats'.indexErrors = validationStats.indexErrors + 1
            /\ validationStats'.textMismatches = validationStats.textMismatches
            /\ validationStats'.validated = validationStats.validated]_vars
  /\ [](Returned => \A j \in 1..Len(result.issues) : ~OutOfBounds(result.issues[j]))

C2_Witness ==
  /\ Returned
  /\ \E k \in 1..Len(Items) :
       OutOfBounds(Items[k]) /\ Items[k].exactText = Str(originalText)
  /\ result.validationStats.indexErrors >= 1

\* C3: offset form: an in-bounds finding whose exactText is the text at its
\* indices is in the returned issues with the same indices and exactText.
C3_ExactMatchKept ==
  Returned =>
    \A k \in 1..Len(Items) :
      (InBounds(Items[k]) /\ Items[k].exactText = Str(Actual(Items[k]))) =>
        \E j \in 1..Len(result.issues) :
          /\ SameSpan(Items[k], result.issues[j])
          /\ result.issues[j].exactText = Items[k].exactText

C3_Witness ==
  /\ Returned
  /\ \E k \in 1..Len(Items) :
       InBounds(Items[k]) /\ Items[k].exactText = Str(Actual(Items[k]))
  /\ Len(result.issues) >= 1

\* an in-bounds finding that quotes a string other than the text at its
\* indices
QuotesOtherText(f) ==
  InBounds(f) /\ f.exactText.t = "str" /\ f.exactText.s # Actual(f)

\* C4: offset form: an in-bounds finding whose exactText differs from the
\* text at its indices with similarity >= 0.8 is in the returned issues with
\* the same indices and with exactText replaced by the text at its indices.
C4_NearMatchRewritten ==
  Returned =>
    \A k \in 1..Len(Items) :
      (QuotesOtherText(Items[k]) /\ Similar(Actual(Items[k]), Items[k].exactText.s)) =>
        \E j \in 1..Len(result.issues) :
          /\ SameSpan(Items[k], result.issues[j])
          /\ result.issues[j].exactText = Str(Actual(Items[k]))

C4_Witness ==
  /\ Returned
  /\ \E k \in 1..Len(Items) :
       /\ QuotesOtherText(Items[k])
       /\ Similar(Actual(Items[k]), Items[k].exactText.s)
       /\ \E j \in 1..Len(result.issues) :
            /\ SameSpan(Items[k], result.issues[j])
            /\ result.issues[j].exactText = Str(Actual(Items[k]))
            /\ result.issues[j].exactText # Items[k].exactText

\* C5: offset form: an in-bounds finding whose exactText is a string (the
\* empty string included) with similarity below 0.8 to the text at its
\* indices is not appended to the survivors and adds exactly one to
\* textMismatches and nothing to indexErrors.
C5_MismatchCountedOnce ==
  [][\A f \in {Items[k] : k \in 1..Len(Items)} :
       (Taking(f) /\ QuotesOtherText(f) /\ ~Similar(Actual(f), f.exactText.s)) =>
         /\ validatedIssues' = validatedIssues
         /\ validationStats'.textMismatches = validationStats.textMismatches + 1
         /\ validationStats'.indexErrors = validationStats.indexErrors
         /\ validationStats'.validated = validationStats.validated]_vars

C5_Witness ==
  /\ Returned
  /\ \E k \in 1..Len(Items) :
       /\ QuotesOtherText(Items[k])
       /\ Items[k].exactText.s = <<>>
  /\ \E k \in 1..Len(Items) :
       /\ QuotesOtherText(Items[k])
       /\ Items[k].exactText.s # <<>>
       /\ ~Similar(Actual(Items[k]), Items[k].exactText.s)
  /\ result.validationStats.textMismatches = 2

\* q occurs in text as a literal substring
IsSubstring(q, text) ==
  \E s \in 0..(Len(text) - Len(q)) : \A k \in 1..Len(q) : text[s + k] = q[k]

\* C6: paragraph form: every finding of the returned issues has an integer
\* paragraphIndex with 0 <= paragraphIndex < len(paragraphs) and a
\* searchableText that is a literal substring of that paragraph's text.
C6_ReturnedAnchorsAreValid ==
  Returned =>
    \A j \in 1..Len(result.issues) :
      LET f == result.issues[j]
      IN /\ IsInteger(f.paragraphIndex)
         /\ 0 <= f.paragraphIndex.n
         /\ f.paragraphIndex.n < Len(paragraphs.items)
         /\ f.searchableText.t = "str"
         /\ IsSubstring(f.searchableText.s, paragraphs.items[f.paragraphIndex.n + 1])

\* a finding (any element but null) without a usable paragraph anchor
BadIndex(f) ==
  \/ ~f.hasLocation
  \/ f.paragraphIndex.t = "undef"
  \/ IsInteger(f.paragraphIndex)
       /\ (f.paragraphIndex.n < 0 \/ f.paragraphIndex.n >= Len(paragraphs.items))

NoSearchableText(f) ==
  ~f.hasLocation \/ f.searchableText.t = "undef" \/ f.searchableText.s = <<>>

Rejections(stats) == stats.invalidParagraphIndex + stats.missingSearchableText

\* C7: paragraph form, document with a paragraphs sequence: a finding whose
\* paragraphIndex is absent, negative or >= len(paragraphs), or whose
\* searchableText is absent or empty, is not appended to the survivors and
\* adds exactly one to invalidParagraphIndex + missingSearchableText; no such
\* finding is in the returned issues.
C7_BadAnchorCountedOnce ==
  /\ [][\A f \in {Items[k] : k \in 1..Len(Items)} :
          (Taking(f) /\ paragraphs.present /\ f.kind # "null"
             /\ (BadIndex(f) \/ NoSearchableText(f))) =>
            /\ validatedIssues' = validatedIssues
            /\ Rejections(validationStats') = Rejections(validationStats) + 1
            /\ validationStats'.validated = validationStats.validated]_vars
  /\ [](Returned /\ paragraphs.present =>
          \A j \in 1..Len(result.issues) :
            ~BadIndex(result.issues[j]) /\ ~NoSearchableText(result.issues[j]))

C7_Witness ==
  /\ Returned
  /\ paragraphs.present
  /\ \E k \in 1..Len(Items) :
       /\ Items[k].hasLocation
       /\ Items[k].paragraphIndex = Num(Len(paragraphs.items))
       /\ ~NoSearchableText(Items[k])
  /\ \E k \in 1..Len(Items) :
       /\ Items[k].hasLocation
       /\ ~BadIndex(Items[k])
       /\ Items[k].searchableText = Str(<<>>)
  /\ result.validationStats.invalidParagraphIndex = 1
  /\ result.validationStats.missingSearchableText = 1

\* C8: in every returned result, summary.totalIssues is the number of
\* returned issues, critical / warnings / suggestions are the numbers of
\* returned issues whose severity is exactly 'Critical' / 'Warning' /
\* 'Suggestion', their sum is at most totalIssues, and so the summary is a
\* function of the returned issues alone, not of the summary in the reply.
C8_SummaryRecomputed ==
  Returned =>
    LET is == result.issues
        n(sev) == Cardinality({j \in 1..Len(is) : is[j].severity = sev})
    IN /\ result.summary.totalIssues = Len(is)
       /\ result.summary.critical = n("Critical")
       /\ result.summary.warnings = n("Warning")
       /\ result.summary.suggestions = n("Suggestion")
       /\ result.summary.critical + result.summary.warnings
            + result.summary.suggestions <= result.summary.totalIssues

C8_Witness ==
  /\ Returned
  /\ analysisResult.summary.totalIssues = 7
  /\ analysisResult.summary.critical = 7
  /\ Len(result.issues) = 2
  /\ result.issues[1].severity = "Critical"
  /\ result.issues[2].severity = "Info"

\* C9: in every returned result, validationStats.original = validated +
\* bounds rejections + text rejections, and validated = len(issues).
C9_EveryFindingAccounted ==
  Returned =>
    /\ result.validationStats.original =
         result.validationStats.validated + result.validationStats.indexErrors
           + result.validationStats.textMismatches
    /\ result.validationStats.validated = Len(result.issues)

Malformed(f) == f.kind \in {"null", "prim"} \/ ~f.hasLocation

\* C10: when the issues array holds a malformed element (null, a non-object,
\* an object without location), validateAndProcessResults does not throw,
\* and every in-bounds finding of the array that quotes the text at its
\* indices is in the returned issues.
C10_MalformedNeverFails ==
  (\E k \in 1..Len(Items) : Malformed(Items[k])) =>
    /\ pc # "thrown"
    /\ Returned =>
         \A k \in 1..Len(Items) :
           (InBounds(Items[k]) /\ Items[k].exactText = Str(Actual(Items[k]))) =>
             \E j \in 1..Len(result.issues) :
               /\ SameSpan(Items[k], result.issues[j])
               /\ result.issues[j].exactText = Items[k].exactText

\* a finding with integer indices and a string exactText that the validator
\* is to keep
ShouldSurvive(f) ==
  /\ InBounds(f)
  /\ f.exactText.t = "str"
  /\ (f.exactText.s = Actual(f) \/ Similar(Actual(f), f.exactText.s))

SameFinding(f, g) ==
  /\ g.id = f.id /\ g.category = f.category /\ g.severity = f.severity
  /\ SameSpan(f, g)

\* C11: the returned issues are the surviving findings of the reply in the
\* reply's order: there is a strictly increasing map from the positions of
\* the returned issues to positions of the reply that pairs each returned
\* issue with its finding and reaches every finding that is to survive, so
\* none is repeated, reordered or dropped for sharing a category.
C11_SurvivorsKeepOrder ==
  Returned =>
    \E h \in [1..Len(result.issues) -> 1..Len(Items)] :
      /\ \A j, k \in 1..Len(result.issues) : j < k => h[j] < h[k]
      /\ \A j \in 1..Len(result.issues) : SameFinding(Items[h[j]], result.issues[j])
      /\ \A k \in 1..Len(Items) :
           ShouldSurvive(Items[k]) => \E j \in 1..Len(result.issues) : h[j] = k

C11_Witness ==
  /\ Returned
  /\ Len(result.issues) = 2
  /\ result.issues[1].category = result.issues[2].category
  /\ result.issues[1].id = "m2"
  /\ result.issues[2].id = "m1"

\* C12: within one returned result all finding ids are pairwise distinct,
\* whatever ids the reply supplied.
C12_IdsAreDistinct ==
  Returned =>
    \A j, k \in 1..Len(result.issues) :
      j # k => result.issues[j].id # result.issues[k].id


BraceFree(text) == \A p \in 1..Len(text) : text[p] \notin {"{", "}"}
IsObjectText(text) == JsonParse(text).ok /\ JsonParse(text).value.kind = "object"
ParseHasRun == apc \notin {"idle", "called", "invoke", "parse"}
ParseFailed == "Analysis failed: Invalid JSON response from Claude"

\* C13: when the reply is a valid JSON object with prose before and/or after
\* it, and the prose has no brace, the text parsed is exactly the object, the
\* parse does not fail, and the findings analysed are those of the object.
C13_ProseAroundObjectIgnored ==
  ParseHasRun =>
    \A a \in 0..Len(content) : \A b \in a..Len(content) :
      LET pre == SubSeq(content, 1, a)
          obj == SubSeq(content, a + 1, b)
          post == SubSeq(content, b + 1, Len(content))
      IN (BraceFree(pre) /\ BraceFree(post) /\ IsObjectText(obj)
            /\ Len(obj) < Len(content)) =>
           /\ jsonText = obj
           /\ error.message \notin {"Invalid JSON response from Claude", ParseFailed}
           /\ apc \in {"validate", "done"} =>
                Items = Decode(JsonParse(obj).value).issues.items

C13_Witness ==
  /\ apc = "done"
  /\ content = <<"w", "{", "[", "]", "}">>
  /\ jsonText = <<"{", "[", "]", "}">>
  /\ result.issues = <<>>

\* C14: analyzeDocument returns a result only when a JSON object was located
\* in the reply and parsed; a reply without an object never yields a result.
C14_ResultOnlyFromObject ==
  apc = "done" => IsObjectText(jsonText)

SizeCheckFailed ==
  error.message \in {"Document too large", "Analysis failed: Document too large"}

\* C15: a document of more than 200000 characters makes analyzeDocument fail
\* without the model ever being invoked; a document of at most 200000
\* characters is never failed by the size check.
C15_SizeCheckedBeforeInvoke ==
  /\ Length(documentText) > 200000 =>
       /\ modelCalls = 0
       /\ apc \in {"called", "catch", "failed"}
       /\ apc # "called" => SizeCheckFailed
  /\ Length(documentText) <= 200000 =>
       /\ ~SizeCheckFailed
       /\ apc # "called" => apc = "invoke" \/ modelCalls = 1

C15_Witness ==
  /\ Length(documentText) = 200001
  /\ apc = "failed"
  /\ error.thrown
  /\ modelCalls = 0

\* C17: within one call of analyzeDocument the model is invoked at most once;
\* after an upstream failure or an unparseable reply the call only fails.
C17_AtMostOneInvocation ==
  /\ modelCalls <= 1
  /\ error # NoError => apc \in {"catch", "failed"}

C17_Witness ==
  /\ apc = "failed"
  /\ modelCalls = 1
  /\ error.message = ParseFailed
  /\ content = <<"{", "[", "n">>

\* the status the failure of the engine should be answered with
ExpectedStatus(message) ==
  IF message = "Analysis failed: Document too large" THEN 413
  ELSE IF message = "Rate limit exceeded. Please wait and try again." THEN 429
  ELSE IF message = "Invalid API key. Please check your Anthropic API key." THEN 401
  ELSE 500

\* C16: when the engine fails, the handler answers 413 for a document that
\* is too large, 429 for an upstream rate-limit failure, 401 for an upstream
\* authentication failure and 500 for every other failure.
C16_FailureStatus ==
  (hpc = "responded" /\ apc = "failed") =>
    response.status = ExpectedStatus(error.message)

\* C18: the handler invokes the engine for a request only after an admission
\* check for that request has run and allowed it.
C18_AdmittedBeforeEngine ==
  apc # "idle" =>
    /\ decisions # <<>>
    /\ decisions[Len(decisions)].success

\* the first n calls used max 5 and windowMs 900000 and fell inside the
\* window that the first of them opened
InOneWindow(n) ==
  \A j \in 1..n :
    /\ decisions[j].options = [windowMs |-> 900000, max |-> 5]
    /\ decisions[j].key = decisions[1].key
    /\ decisions[j].at < decisions[1].at + 900000

\* C19: with max 5 and windowMs 900000, from an empty window, five calls
\* inside one window are allowed with remaining 4, 3, 2, 1, 0 and the sixth
\* is denied with remaining 0 and retryAfter >= 1; with max >= 1 every
\* denied decision has a retryAfter that is a number >= 1.
C19_FiveThenDenied ==
  /\ \A n \in 1..Len(decisions) :
       (n <= 6 /\ InOneWindow(n)) =>
         IF n <= 5
         THEN decisions[n].success /\ decisions[n].remaining = 5 - n
         ELSE /\ ~decisions[n].success
              /\ decisions[n].remaining = 0
              /\ decisions[n].retryAfter >= 1
  /\ \A n \in 1..Len(decisions) :
       (~decisions[n].success /\ decisions[n].options.max >= 1) =>
         decisions[n].retryAfter \in Nat \ {0}

C19_Witness ==
  /\ Len(decisions) = 6
  /\ InOneWindow(6)
  /\ decisions[3].at >= decisions[1].at + 300000
  /\ ~decisions[6].success
  /\ decisions[6].retryAfter > 1

\* the calls on key admitted at instants in (t - windowMs, t]
AdmittedIn(key, t, windowMs) ==
  {j \in 1..Len(decisions) :
     /\ decisions[j].key = key
     /\ decisions[j].success
     /\ decisions[j].at > t - windowMs
     /\ decisions[j].at <= t}

\* C20: when every call on a key uses the same limit, the calls on that key
\* admitted in any trailing window number at most max, whatever calls and
\* sweeps happen on other keys with other limits.
C20_SlidingWindowBound ==
  \A n \in 1..Len(decisions) :
    decisions[n].key = "k1" =>
      Cardinality(AdmittedIn("k1", decisions[n].at, OptionsOf("k1").windowMs))
        <= OptionsOf("k1").max

\* tasks a and b have both called rateLimit, at the same instant
CalledTogether(a, b) ==
  /\ a # b
  /\ tasks[a].decision # 0 /\ tasks[b].decision # 0
  /\ tasks[a].decision < tasks[b].decision
  /\ decisions[tasks[a].decision].at = decisions[tasks[b].decision].at

\* the call found exactly one slot left: it was allowed with none remaining
TookLastSlot(n) == decisions[n].success /\ decisions[n].remaining = 0

\* C21: when two tasks call rateLimit on one key at the same time and one
\* slot remains in the window, at most one of them is allowed.
C21_NoDoubleAdmission ==
  \A a, b \in DOMAIN tasks :
    (CalledTogether(a, b) /\ TookLastSlot(tasks[a].decision)) =>
      ~decisions[tasks[b].decision].success

C21_Witness ==
  \E a, b \in DOMAIN tasks :
    /\ CalledTogether(a, b)
    /\ TookLastSlot(tasks[a].decision)
    /\ tasks[a].seen = tasks[b].seen
    /\ tasks[a].seen # <<>>
    /\ tasks[a].pc = "awaiting" /\ tasks[b].pc = "awaiting"
    /\ ~decisions[tasks[b].decision].success

\* the sweep that a call by caller starts delta milliseconds from now removes
\* key from the store
Removes(caller, delta, key) ==
  /\ key \in DOMAIN rateLimitStore
  /\ key \notin DOMAIN cleanupOldEntries(rateLimitStore,
                         now + delta - OptionsOf(caller).windowMs, now + delta)

\* what key gets from a call at time at on the Map store: the value
\* returned and the entry left
NextCall(store, key, at) ==
  LET returned == rateLimit(store, key, OptionsOf(key), FALSE, at)
  IN <<returned.decision, returned.store[key]>>

\* C22: a sweep removes a key only if the key's window holds no instant
\* inside the key's own trailing windowMs and its reset time is in the past;
\* the removed key's next call is decided as if it had not been removed.
C22_OnlyExpiredKeysRemoved ==
  \A caller \in {"k1", "k2"}, delta \in SweepDeltas, key \in DOMAIN rateLimitStore :
    Removes(caller, delta, key) =>
      LET at == now + delta
          swept == cleanupOldEntries(rateLimitStore,
                                     at - OptionsOf(caller).windowMs, at)
      IN /\ Recent(rateLimitStore[key].requests, at - OptionsOf(key).windowMs) = <<>>
         /\ rateLimitStore[key].resetTime < at
         /\ \A later \in SweepDeltas \cup {0} :
              NextCall(swept, key, at + later) = NextCall(rateLimitStore, key, at + later)

\* a key that was removed by a sweep has called again
C22_Witness ==
  \E m, n \in 1..Len(decisions) :
    /\ m < n /\ n = Len(decisions)
    /\ decisions[m].key = "k2" /\ decisions[m].success
    /\ decisions[n].key = "k1"
    /\ "k2" \notin DOMAIN rateLimitStore
    /\ \E delta \in SweepDeltas : Removes("k2", delta, "k1")

\* the divisor of the similarity, longer.length, line 293
Divisor(str1, str2) == Max2(Len(str1), Len(str2))

\* C23: fuzzyMatch and levenshteinDistance give the same value when their
\* arguments are exchanged; fuzzyMatch(a, a) is true for a non-empty a;
\* fuzzyMatch is false when one or both arguments are empty, and the
\* similarity is only divided by a length that is not 0.
C23_SymmetricAndReflexive ==
  /\ mpc = "fuzzyMatch" =>
       /\ matched = fuzzyMatch(text2, text1)
       /\ (text1 = text2 /\ text1 # <<>>) => matched
       /\ (text1 = <<>> \/ text2 = <<>>) => ~matched
       /\ (text1 # <<>> /\ text2 # <<>>) => Divisor(text1, text2) # 0
  /\ mpc = "levenshteinDistance" =>
       distance = levenshteinDistance(text2, text1)

C23_Witness ==
  /\ mpc = "fuzzyMatch"
  /\ text1 = <<>> /\ text2 = <<>>
  /\ ~matched

\* the calls with the analyze endpoint's limit admitted in (t - 900000, t]
AnalyzeAdmittedIn(t) ==
  {j \in 1..Len(decisions) :
     /\ decisions[j].options = limitOf("/api/v1/analyze")
     /\ decisions[j].success
     /\ decisions[j].at > t - 900000
     /\ decisions[j].at <= t}

\* C24: for one client, at most 5 calls with endpoint '/api/v1/analyze' are
\* admitted in any trailing 15 minutes, whatever calls the client makes with
\* other endpoints in between.
C24_AnalyzeLimitPerClient ==
  \A n \in 1..Len(decisions) :
    Cardinality(AnalyzeAdmittedIn(decisions[n].at)) <= 5

\* the latest call, when it was denied
LastDenied == decisions # <<>> /\ ~decisions[Len(decisions)].success

\* a call like the denied one (same key, same limit) at time at on store
Again(store, denied, sweep, at) ==
  rateLimit(store, denied.key, denied.options, sweep, at)

\* milliseconds past the end of the wait at which the key calls again
Lateness == {0, 1, 1000}

\* C25: after a call denied at time t with retryAfter r, the key's first
\* call with the same limit at a time t' >= t + 1000 * r is allowed when no
\* call on the key was admitted in between; a call denied in between does
\* not postpone this.
C25_RetryAfterSuffices ==
  LastDenied =>
    LET denied == decisions[Len(decisions)]
        wait == 1000 * denied.retryAfter
    IN \A late \in Lateness, sweep \in BOOLEAN :
         /\ Again(rateLimitStore, denied, sweep, denied.at + wait + late).decision.success
         /\ \A early \in {1, wait \div 2, wait - 1} :
              LET between == Again(rateLimitStore, denied, sweep, denied.at + early)
              IN ~between.decision.success =>
                   Again(between.store, denied, sweep,
                         denied.at + wait + late).decision.success

\* C26: a POST whose body passes validateRequest and whose analysis completes
\* is answered with status 200, for a body with documentText only and for a
\* body with documentStructure only.
C26_ValidRequestAnswered200 ==
  (/\ hpc = "responded"
   /\ request.method = "POST"
   /\ validateRequest(request.body) = {}
   /\ apc = "done") =>
    response.status = 200

\* the field of the body whose text the handler hands to the engine
PassedText ==
  IF request.body.documentStructure.kind # "undefined"
  THEN request.body.documentStructure.fullText
  ELSE request.body.documentText

\* C27: every document the handler passes to the engine has a fullText that
\* is a string of 100 to 200000 characters and, when a documentStructure is
\* analysed, paragraphs that are an array, whatever the request body.
C27_EngineGetsCheckedDocument ==
  apc # "idle" =>
    /\ PassedText.kind = "string"
    /\ Length(documentText) >= 100
    /\ Length(documentText) <= 200000
    /\ request.body.documentStructure.kind # "undefined" => paragraphs.present

\* the classic edit distance: the fewest single-character insertions,
\* deletions and substitutions that turn a into b, by the recurrence on the
\* first characters
RECURSIVE EditDistance(_, _)
EditDistance(a, b) ==
  IF a = <<>> THEN Len(b)
  ELSE IF b = <<>> THEN Len(a)
  ELSE IF Head(a) = Head(b) THEN EditDistance(Tail(a), Tail(b))
  ELSE 1 + Min2(EditDistance(Tail(a), Tail(b)),
                Min2(EditDistance(Tail(a), b), EditDistance(a, Tail(b))))

\* C28: levenshteinDistance(a, b) is the classic edit distance of a and b,
\* the empty strings included, with "a" and "A" and the space being three
\* different characters.
C28_ClassicEditDistance ==
  mpc = "levenshteinDistance" => distance = EditDistance(text1, text2)

C28_Witness ==
  /\ mpc = "levenshteinDistance"
  /\ text1 = <<"a", " ">>
  /\ text2 = <<"A">>
  /\ distance = 2

====
